---- MODULE Spec2Model ----
(***************************************************************************)
(* Music queue: the queue service (validation, duplicate detection,        *)
(* import, add, next with archiving) on top of the line-oriented file      *)
(* storage.  Strings are sequences of one-character strings, so that       *)
(* strings.TrimSpace, strings.ToLower, strings.Index and strings.Contains  *)
(* are computed as the Go code computes them.  A file is the sequence of   *)
(* its physical lines (the text between line breaks).                      *)
(***************************************************************************)
EXTENDS Integers, Sequences, FiniteSets, TLC

VARIABLES queueFile, archiveFile, last, proc

vars == <<queueFile, archiveFile, last, proc>>

(***************************************************************************)
(* Bounds of the model.                                                    *)
(***************************************************************************)
\* Largest number of physical lines the queue file and the archive file
\* may hold together after a call that makes them grow.
MaxAlbums == 3

\* Largest length of the strings given to validateAlbumFormat on its own.
ValidateMaxLen == 5

\* Largest number of lines of a file, and of entries of a write, in the
\* specification of the line store alone.
StoreMaxLines == 2

\* Concurrent invocations of AddAlbum.
MaxProcs == 2

\* AddAlbum calls that make the queue a caller then drains.
DrainMaxAdds == 2

\* bufio.MaxScanTokenSize, the size of the buffer of a bufio.Scanner that
\* was given no other: a line of that many bytes or more cannot be scanned.
MaxScanTokenSize == 65536

(***************************************************************************)
(* String primitives (Go package strings).                                 *)
(***************************************************************************)
NL == "\n"

SetMin(S) == CHOOSE x \in S : \A y \in S : x <= y

SetMax(S) == CHOOSE x \in S : \A y \in S : x >= y

\* unicode.IsSpace restricted to the alphabet of the model.
IsSpace(c) == c \in {" ", NL}

TrimSpace(s) ==
    LET keep == {i \in 1..Len(s) : ~IsSpace(s[i])}
    IN  IF keep = {} THEN <<>> ELSE SubSeq(s, SetMin(keep), SetMax(keep))

LowerChar(c) ==
    CASE c = "A" -> "a"
      [] c = "B" -> "b"
      [] OTHER -> c

ToLower(s) == IF s = <<>> THEN <<>> ELSE [i \in 1..Len(s) |-> LowerChar(s[i])]

\* strings.Index(s, c) for a one-character c: 0-based, -1 when absent.
Index(s, c) ==
    LET at == {i \in 1..Len(s) : s[i] = c}
    IN  IF at = {} THEN -1 ELSE SetMin(at) - 1

\* strings.Contains(s, sub).
Contains(s, sub) ==
    \E i \in 0..(Len(s) - Len(sub)) : SubSeq(s, i + 1, i + Len(sub)) = sub

(***************************************************************************)
(* Text literals of the code.                                              *)
(***************************************************************************)
TxtInvalidFormat ==
    <<"i", "n", "v", "a", "l", "i", "d", " ", "f", "o", "r", "m", "a", "t">>

TxtAlbumQuote ==
    <<"a", "l", "b", "u", "m", " ", "'">>

TxtAlreadyExists ==
    <<"'", " ", "a", "l", "r", "e", "a", "d", "y", " ", "e", "x", "i", "s", "t", "s">>

TxtInvalidAlbumFormat ==
    <<"i", "n", "v", "a", "l", "i", "d", " ", "a", "l", "b", "u", "m", " ", "f", "o", "r", "m", "a", "t", ":", " ", "m", "u", "s", "t", " ", "b", "e", " ", "'", "A", "r", "t", "i", "s", "t", " ", "-", " ", "A", "l", "b", "u", "m", "'", " ", "f", "o", "r", "m", "a", "t">>

TxtFailedReadQueue ==
    <<"f", "a", "i", "l", "e", "d", " ", "t", "o", " ", "r", "e", "a", "d", " ", "e", "x", "i", "s", "t", "i", "n", "g", " ", "q", "u", "e", "u", "e", ":", " ">>

TxtFailedSaveQueue ==
    <<"f", "a", "i", "l", "e", "d", " ", "t", "o", " ", "s", "a", "v", "e", " ", "u", "p", "d", "a", "t", "e", "d", " ", "q", "u", "e", "u", "e", ":", " ">>

TxtFileNotFound ==
    <<"f", "i", "l", "e", " ", "n", "o", "t", " ", "f", "o", "u", "n", "d", ":", " ">>

TxtFailedReadImport ==
    <<"f", "a", "i", "l", "e", "d", " ", "t", "o", " ", "r", "e", "a", "d", " ", "i", "m", "p", "o", "r", "t", " ", "f", "i", "l", "e", ":", " ">>

TxtFailedOpen ==
    <<"f", "a", "i", "l", "e", "d", " ", "t", "o", " ", "o", "p", "e", "n", " ", "f", "i", "l", "e", " ">>

TxtFailedRead ==
    <<"f", "a", "i", "l", "e", "d", " ", "t", "o", " ", "r", "e", "a", "d", " ", "f", "i", "l", "e", " ">>

TxtFailedMkdir ==
    <<"f", "a", "i", "l", "e", "d", " ", "t", "o", " ", "c", "r", "e", "a", "t", "e", " ", "d", "i", "r", "e", "c", "t", "o", "r", "y", " ">>

TxtFailedCreate ==
    <<"f", "a", "i", "l", "e", "d", " ", "t", "o", " ", "c", "r", "e", "a", "t", "e", " ", "f", "i", "l", "e", " ">>

TxtFailedWrite ==
    <<"f", "a", "i", "l", "e", "d", " ", "t", "o", " ", "w", "r", "i", "t", "e", " ", "t", "o", " ", "f", "i", "l", "e", " ">>

TxtQueueEmpty ==
    <<"q", "u", "e", "u", "e", " ", "i", "s", " ", "e", "m", "p", "t", "y">>

TxtFailedArchive ==
    <<"f", "a", "i", "l", "e", "d", " ", "t", "o", " ", "a", "r", "c", "h", "i", "v", "e", " ", "a", "l", "b", "u", "m", ":", " ">>

TxtFailedUpdateQueue ==
    <<"f", "a", "i", "l", "e", "d", " ", "t", "o", " ", "u", "p", "d", "a", "t", "e", " ", "q", "u", "e", "u", "e", ":", " ">>

\* The nil error.
NoError == <<>>

(***************************************************************************)
(* Line store (storage.FileStorage).                                       *)
(***************************************************************************)
\* File names, as they appear in error texts.
QueuePath == <<"q">>

ArchivePath == <<"r">>

ImportPath == <<"i">>

Missing == [exists |-> FALSE, lines |-> <<>>]

FileOf(ls) == [exists |-> TRUE, lines |-> ls]

RECURSIVE SplitLines(_)
\* The physical lines that the text s occupies in a file: s cut at its
\* line breaks (bufio.Scanner with the default ScanLines split).
SplitLines(s) ==
    LET at == Index(s, NL)
    IN  IF at = -1 THEN <<s>>
        ELSE <<SubSeq(s, 1, at)>> \o SplitLines(SubSeq(s, at + 2, Len(s)))

RECURSIVE PhysicalLines(_)
\* The physical lines produced by writing each entry followed by "\n".
PhysicalLines(lines) ==
    IF lines = <<>> THEN <<>>
    ELSE SplitLines(Head(lines)) \o PhysicalLines(Tail(lines))

RECURSIVE NonBlankUntrimmed(_)
\* The scan loop without the call of strings.TrimSpace: blank lines are
\* skipped, the others kept as they are.
NonBlankUntrimmed(raw) ==
    IF raw = <<>> THEN <<>>
    ELSE (IF TrimSpace(Head(raw)) # <<>> THEN <<Head(raw)>> ELSE <<>>)
         \o NonBlankUntrimmed(Tail(raw))

RECURSIVE NonBlankTrimmed(_)
NonBlankTrimmed(raw) ==
    IF raw = <<>> THEN <<>>
    ELSE LET line == TrimSpace(Head(raw))
         IN  (IF line # <<>> THEN <<line>> ELSE <<>>) \o NonBlankTrimmed(Tail(raw))

\* The number of bytes of a character of the model: "W" stands for a run of
\* MaxScanTokenSize letters, any other character for itself.
Width(c) == IF c = "W" THEN MaxScanTokenSize ELSE 1

ByteLen(s) ==
    LET F[i \in 0..Len(s)] == IF i = 0 THEN 0 ELSE F[i - 1] + Width(s[i])
    IN  F[Len(s)]

\* The scan of an open file: the lines trimmed, blank ones skipped; the
\* scanner stops with an error (bufio.ErrTooLong) at a line that does not
\* fit in its buffer.
ScanResult(file, path) ==
    IF \E i \in 1..Len(file.lines) : ByteLen(file.lines[i]) >= MaxScanTokenSize
    THEN [err |-> TxtFailedRead \o path, lines |-> <<>>]
    ELSE [err |-> NoError, lines |-> NonBlankTrimmed(file.lines)]

\* ReadLines without the os.Stat check: a missing file fails to open.
ReadLinesNoStat(file, path, faults) ==
    IF ~file.exists THEN {[err |-> TxtFailedOpen \o path, lines |-> <<>>]}
    ELSE {ScanResult(file, path)}
         \cup (IF faults
               THEN {[err |-> TxtFailedOpen \o path, lines |-> <<>>],
                     [err |-> TxtFailedRead \o path, lines |-> <<>>]}
               ELSE {})

\* ReadLines whose scan loop stops one line early.
ReadLinesDropLast(file, path, faults) ==
    IF ~file.exists THEN {[err |-> NoError, lines |-> <<>>]}
    ELSE {ScanResult(FileOf(SubSeq(file.lines, 1, Len(file.lines) - 1)), path)}
         \cup (IF faults
               THEN {[err |-> TxtFailedOpen \o path, lines |-> <<>>],
                     [err |-> TxtFailedRead \o path, lines |-> <<>>]}
               ELSE {})

\* ReadLines: the results [err, lines] the call can have.  A missing file
\* reads as empty, without error; a line too long for the scanner is an
\* error; with faults, os.Open can fail and the scanner can report an error
\* of the file system.
ReadLines(file, path, faults) ==
    IF ~file.exists THEN {[err |-> NoError, lines |-> <<>>]}
    ELSE {ScanResult(file, path)}
         \cup (IF faults
               THEN {[err |-> TxtFailedOpen \o path, lines |-> <<>>],
                     [err |-> TxtFailedRead \o path, lines |-> <<>>]}
               ELSE {})

\* WriteLines that opens the file for appending instead of creating it anew.
WriteLinesAppend(file, path, lines, faults) ==
    {[err |-> NoError, file |-> FileOf(file.lines \o PhysicalLines(lines))]}
    \cup (IF faults
          THEN {[err |-> TxtFailedMkdir \o path, file |-> file],
                [err |-> TxtFailedCreate \o path, file |-> file]}
          ELSE {})

\* WriteLines: the results [err, file] the call can have.  With faults:
\* MkdirAll or os.Create fails and the file is as it was; a WriteString fails
\* after os.Create has truncated the file, with the first k entries on disk;
\* the deferred writer.Flush() fails with the first k entries on disk, and
\* its error is dropped.
WriteLines(file, path, lines, faults) ==
    {[err |-> NoError, file |-> FileOf(PhysicalLines(lines))]}
    \cup (IF faults
          THEN {[err |-> TxtFailedMkdir \o path, file |-> file],
                [err |-> TxtFailedCreate \o path, file |-> file]}
               \cup {[err |-> TxtFailedWrite \o path,
                      file |-> FileOf(PhysicalLines(SubSeq(lines, 1, k)))] :
                        k \in 0..(Len(lines) - 1)}
               \cup {[err |-> NoError,
                      file |-> FileOf(PhysicalLines(SubSeq(lines, 1, k)))] :
                        k \in 0..(Len(lines) - 1)}
          ELSE {})

\* One storage call, as recorded in the log of an operation: which file,
\* read or write, whether it returned an error, and whether the file then
\* holds everything the call was given.
IOEvent(file, kind, err, complete) ==
    [file |-> file, kind |-> kind, failed |-> (err # NoError), complete |-> complete]

ReadEvent(file, r) == IOEvent(file, "read", r.err, r.err = NoError)

WriteEvent(file, w, lines) ==
    IOEvent(file, "write", w.err, w.file = FileOf(PhysicalLines(lines)))

(***************************************************************************)
(* Queue service.                                                          *)
(***************************************************************************)
\* validateAlbumFormat that separates artist and album at the last dash.
validateAlbumFormatLastDash(a) ==
    LET album == TrimSpace(a)
        at == {i \in 1..Len(album) : album[i] = "-"}
        dashIndex == IF at = {} THEN -1 ELSE SetMax(at) - 1
    IN  IF dashIndex = -1 THEN FALSE
        ELSE IF dashIndex = 0 THEN FALSE
        ELSE IF dashIndex = Len(album) - 1 THEN FALSE
        ELSE LET beforeDash == TrimSpace(SubSeq(album, 1, dashIndex))
                 afterDash == TrimSpace(SubSeq(album, dashIndex + 2, Len(album)))
             IN  Len(beforeDash) > 0 /\ Len(afterDash) > 0

validateAlbumFormat(a) ==
    LET album == TrimSpace(a)
        dashIndex == Index(album, "-")
    IN  IF dashIndex = -1 THEN FALSE
        ELSE IF dashIndex = 0 THEN FALSE
        ELSE IF dashIndex = Len(album) - 1 THEN FALSE
        ELSE LET beforeDash == TrimSpace(SubSeq(album, 1, dashIndex))
                 afterDash == TrimSpace(SubSeq(album, dashIndex + 2, Len(album)))
             IN  Len(beforeDash) > 0 /\ Len(afterDash) > 0

\* The error of addAlbumCheck (NoError when the album passes).
addAlbumCheck(albumTitle, existingAlbumsMap) ==
    LET trimmedTitle == TrimSpace(albumTitle)
    IN  IF ~validateAlbumFormat(trimmedTitle) THEN TxtInvalidFormat
        ELSE IF ToLower(trimmedTitle) \in existingAlbumsMap
             THEN TxtAlbumQuote \o trimmedTitle \o TxtAlreadyExists
        ELSE NoError

\* The keys of existingAlbumsMap built from the lines read.
AlbumsMap(albums) == {ToLower(TrimSpace(albums[i])) : i \in 1..Len(albums)}

\* AddAlbum that saves the queue before it looks at the result of the check.
AddAlbumRunSaveFirst(qf, albumTitle, faults) ==
    UNION {
        LET check == addAlbumCheck(albumTitle, AlbumsMap(r.lines))
            rlog == <<ReadEvent("queue", r)>>
            updatedAlbums == IF check # NoError THEN r.lines
                             ELSE Append(r.lines, TrimSpace(albumTitle))
        IN  IF r.err # NoError
            THEN {[err |-> TxtFailedReadQueue \o r.err, queue |-> qf, log |-> rlog]}
            ELSE {[err |-> IF w.err # NoError THEN TxtFailedSaveQueue \o w.err
                           ELSE IF check = NoError THEN NoError
                           ELSE IF Contains(check, TxtInvalidFormat)
                           THEN TxtInvalidAlbumFormat ELSE check,
                   queue |-> w.file,
                   log |-> Append(rlog, WriteEvent("queue", w, updatedAlbums))] :
                     w \in WriteLines(qf, QueuePath, updatedAlbums, faults)}
        : r \in ReadLines(qf, QueuePath, faults)}

\* The set of the entries of a sequence.
Entries(albums) == {albums[i] : i \in 1..Len(albums)}

\* The orders in which the entries of s can be listed.
Orders(s) ==
    {t \in [1..Len(s) -> Entries(s)] : \A x \in Entries(s) :
        Cardinality({i \in 1..Len(s) : s[i] = x}) = Cardinality({i \in 1..Len(t) : t[i] = x})}

\* AddAlbum that saves the albums in the order a range over a map gives
\* them, which is any order.
AddAlbumRunAnyOrder(qf, albumTitle, faults) ==
    UNION {
        LET check == addAlbumCheck(albumTitle, AlbumsMap(r.lines))
            updatedAlbums == Append(r.lines, TrimSpace(albumTitle))
            rlog == <<ReadEvent("queue", r)>>
        IN  IF r.err # NoError
            THEN {[err |-> TxtFailedReadQueue \o r.err, queue |-> qf, log |-> rlog]}
            ELSE IF check # NoError
            THEN {[err |-> IF Contains(check, TxtInvalidFormat)
                           THEN TxtInvalidAlbumFormat ELSE check,
                   queue |-> qf, log |-> rlog]}
            ELSE UNION {
                    {[err |-> IF w.err # NoError THEN TxtFailedSaveQueue \o w.err
                              ELSE NoError,
                      queue |-> w.file,
                      log |-> Append(rlog, WriteEvent("queue", w, albums))] :
                        w \in WriteLines(qf, QueuePath, albums, faults)}
                    : albums \in Orders(updatedAlbums)}
        : r \in ReadLines(qf, QueuePath, faults)}

\* AddAlbum: the results [err, queue, log] the call can have on the queue
\* file qf.
AddAlbumRun(qf, albumTitle, faults) ==
    UNION {
        LET check == addAlbumCheck(albumTitle, AlbumsMap(r.lines))
            updatedAlbums == Append(r.lines, TrimSpace(albumTitle))
            rlog == <<ReadEvent("queue", r)>>
        IN  IF r.err # NoError
            THEN {[err |-> TxtFailedReadQueue \o r.err, queue |-> qf, log |-> rlog]}
            ELSE IF check # NoError
            THEN {[err |-> IF Contains(check, TxtInvalidFormat)
                           THEN TxtInvalidAlbumFormat ELSE check,
                   queue |-> qf, log |-> rlog]}
            ELSE {[err |-> IF w.err # NoError THEN TxtFailedSaveQueue \o w.err
                           ELSE NoError,
                   queue |-> w.file,
                   log |-> Append(rlog, WriteEvent("queue", w, updatedAlbums))] :
                     w \in WriteLines(qf, QueuePath, updatedAlbums, faults)}
        : r \in ReadLines(qf, QueuePath, faults)}

RECURSIVE ImportLoopNoIndexUpdate(_, _, _, _, _)
\* The loop of ImportAlbums without the update of the map of albums seen.
ImportLoopNoIndexUpdate(importAlbums, existingAlbumsMap, currentAlbums, addedCount, skippedCount) ==
    IF importAlbums = <<>>
    THEN [currentAlbums |-> currentAlbums, addedCount |-> addedCount,
          skippedCount |-> skippedCount]
    ELSE LET album == Head(importAlbums)
             rest == Tail(importAlbums)
         IN  IF addAlbumCheck(album, existingAlbumsMap) # NoError
             THEN ImportLoopNoIndexUpdate(rest, existingAlbumsMap, currentAlbums,
                                          addedCount, skippedCount + 1)
             ELSE ImportLoopNoIndexUpdate(rest, existingAlbumsMap,
                                          Append(currentAlbums, TrimSpace(album)),
                                          addedCount + 1, skippedCount)

RECURSIVE ImportLoopPrepend(_, _, _, _, _)
\* The loop of ImportAlbums putting each accepted line in front of the albums
\* instead of behind them.
ImportLoopPrepend(importAlbums, existingAlbumsMap, currentAlbums, addedCount, skippedCount) ==
    IF importAlbums = <<>>
    THEN [currentAlbums |-> currentAlbums, addedCount |-> addedCount,
          skippedCount |-> skippedCount]
    ELSE LET album == Head(importAlbums)
             rest == Tail(importAlbums)
             processedAlbum == TrimSpace(album)
         IN  IF addAlbumCheck(album, existingAlbumsMap) # NoError
             THEN ImportLoopPrepend(rest, existingAlbumsMap, currentAlbums, addedCount,
                                    skippedCount + 1)
             ELSE ImportLoopPrepend(rest, existingAlbumsMap \cup {ToLower(processedAlbum)},
                                    <<processedAlbum>> \o currentAlbums, addedCount + 1,
                                    skippedCount)

RECURSIVE ImportLoopLowerCase(_, _, _, _, _)
\* The loop of ImportAlbums storing the lower-cased key of each accepted line
\* instead of the line.
ImportLoopLowerCase(importAlbums, existingAlbumsMap, currentAlbums, addedCount, skippedCount) ==
    IF importAlbums = <<>>
    THEN [currentAlbums |-> currentAlbums, addedCount |-> addedCount,
          skippedCount |-> skippedCount]
    ELSE LET album == Head(importAlbums)
             rest == Tail(importAlbums)
             normalizedAlbum == ToLower(TrimSpace(album))
         IN  IF addAlbumCheck(album, existingAlbumsMap) # NoError
             THEN ImportLoopLowerCase(rest, existingAlbumsMap, currentAlbums, addedCount,
                                      skippedCount + 1)
             ELSE ImportLoopLowerCase(rest, existingAlbumsMap \cup {normalizedAlbum},
                                      Append(currentAlbums, normalizedAlbum),
                                      addedCount + 1, skippedCount)

RECURSIVE ImportLoop(_, _, _, _, _)
\* The loop of ImportAlbums over the lines still to process:
\* [currentAlbums, addedCount, skippedCount].
ImportLoop(importAlbums, existingAlbumsMap, currentAlbums, addedCount, skippedCount) ==
    IF importAlbums = <<>>
    THEN [currentAlbums |-> currentAlbums, addedCount |-> addedCount,
          skippedCount |-> skippedCount]
    ELSE LET album == Head(importAlbums)
             rest == Tail(importAlbums)
             processedAlbum == TrimSpace(album)
         IN  IF TrimSpace(album) = <<>>
             THEN ImportLoop(rest, existingAlbumsMap, currentAlbums, addedCount, skippedCount)
             ELSE IF addAlbumCheck(album, existingAlbumsMap) # NoError
             THEN ImportLoop(rest, existingAlbumsMap, currentAlbums, addedCount,
                             skippedCount + 1)
             ELSE ImportLoop(rest, existingAlbumsMap \cup {ToLower(processedAlbum)},
                             Append(currentAlbums, processedAlbum), addedCount + 1,
                             skippedCount)

RECURSIVE SkipCountersDuplicateFirst(_, _, _, _)
\* The two counters of skipped lines with the duplicate check made before
\* the format check.
SkipCountersDuplicateFirst(importAlbums, index, duplicates, formatErrors) ==
    IF importAlbums = <<>>
    THEN [duplicates |-> duplicates, formatErrors |-> formatErrors]
    ELSE LET line == TrimSpace(Head(importAlbums))
             rest == Tail(importAlbums)
         IN  IF ToLower(line) \in index
             THEN SkipCountersDuplicateFirst(rest, index, duplicates + 1, formatErrors)
             ELSE IF ~validateAlbumFormat(line)
             THEN SkipCountersDuplicateFirst(rest, index, duplicates, formatErrors + 1)
             ELSE SkipCountersDuplicateFirst(rest, index \cup {ToLower(line)},
                                             duplicates, formatErrors)

RECURSIVE SkipCounters(_, _, _, _)
\* The two counters of skipped lines, line by line in file order: a line that
\* fails the format check counts as invalid and does not enter the duplicate
\* index; a valid line found in the index counts as a duplicate; any other
\* line enters the index.  [duplicates, formatErrors].
SkipCounters(importAlbums, index, duplicates, formatErrors) ==
    IF importAlbums = <<>>
    THEN [duplicates |-> duplicates, formatErrors |-> formatErrors]
    ELSE LET line == TrimSpace(Head(importAlbums))
             rest == Tail(importAlbums)
         IN  IF ~validateAlbumFormat(line)
             THEN SkipCounters(rest, index, duplicates, formatErrors + 1)
             ELSE IF ToLower(line) \in index
             THEN SkipCounters(rest, index, duplicates + 1, formatErrors)
             ELSE SkipCounters(rest, index \cup {ToLower(line)}, duplicates,
                               formatErrors)

\* ImportAlbums with two of its steps made optional: the check that the
\* source exists, and the condition on the write.
ImportAlbumsVariant(qf, source, faults, checkExists, alwaysWrite) ==
    LET zero(err, q, log) ==
            [err |-> err, added |-> 0, skipped |-> 0, duplicates |-> 0,
             formatErrors |-> 0, queue |-> q, log |-> log]
    IN  IF checkExists /\ ~source.exists
        THEN {zero(TxtFileNotFound \o ImportPath, qf, <<>>)}
        ELSE UNION {
            LET ilog == <<ReadEvent("import", ir)>>
            IN  IF ir.err # NoError
                THEN {zero(TxtFailedReadImport \o ir.err, qf, ilog)}
                ELSE IF Len(ir.lines) = 0 /\ ~alwaysWrite THEN {zero(NoError, qf, ilog)}
                ELSE UNION {
                    LET reads == Append(ilog, ReadEvent("queue", r))
                        loop == ImportLoop(ir.lines, AlbumsMap(r.lines), r.lines, 0, 0)
                        split == SkipCounters(ir.lines, AlbumsMap(r.lines), 0, 0)
                        counted(q, log) ==
                            [err |-> NoError, added |-> loop.addedCount,
                             skipped |-> loop.skippedCount,
                             duplicates |-> split.duplicates,
                             formatErrors |-> split.formatErrors,
                             queue |-> q, log |-> log]
                    IN  IF r.err # NoError
                        THEN {zero(TxtFailedReadQueue \o r.err, qf, reads)}
                        ELSE IF loop.addedCount > 0 \/ alwaysWrite
                        THEN {LET wlog == Append(reads, WriteEvent("queue", w,
                                                                  loop.currentAlbums))
                              IN  IF w.err # NoError
                                  THEN zero(TxtFailedSaveQueue \o w.err, w.file, wlog)
                                  ELSE counted(w.file, wlog) :
                                w \in WriteLines(qf, QueuePath, loop.currentAlbums,
                                                 faults)}
                        ELSE {counted(qf, reads)}
                    : r \in ReadLines(qf, QueuePath, faults)}
            : ir \in ReadLines(source, ImportPath, faults)}

\* ImportAlbums that saves the queue whether or not a line was added.
ImportAlbumsRunAlwaysSave(qf, source, faults) ==
    ImportAlbumsVariant(qf, source, faults, TRUE, TRUE)

\* ImportAlbums without the check that the source exists.
ImportAlbumsRunNoStat(qf, source, faults) ==
    ImportAlbumsVariant(qf, source, faults, FALSE, FALSE)

\* ImportAlbums: the results [err, added, skipped, duplicates, formatErrors,
\* queue, log] the call can have.  skipped is the one counter of skipped
\* lines that the loop keeps; duplicates and formatErrors are the two
\* counters the three-counter interface reports.
ImportAlbumsRun(qf, source, faults) ==
    LET zero(err, q, log) ==
            [err |-> err, added |-> 0, skipped |-> 0, duplicates |-> 0,
             formatErrors |-> 0, queue |-> q, log |-> log]
    IN  IF ~source.exists THEN {zero(TxtFileNotFound \o ImportPath, qf, <<>>)}
        ELSE UNION {
            LET ilog == <<ReadEvent("import", ir)>>
            IN  IF ir.err # NoError
                THEN {zero(TxtFailedReadImport \o ir.err, qf, ilog)}
                ELSE IF Len(ir.lines) = 0 THEN {zero(NoError, qf, ilog)}
                ELSE UNION {
                    LET reads == Append(ilog, ReadEvent("queue", r))
                        loop == ImportLoop(ir.lines, AlbumsMap(r.lines), r.lines, 0, 0)
                        split == SkipCounters(ir.lines, AlbumsMap(r.lines), 0, 0)
                        counted(q, log) ==
                            [err |-> NoError, added |-> loop.addedCount,
                             skipped |-> loop.skippedCount,
                             duplicates |-> split.duplicates,
                             formatErrors |-> split.formatErrors,
                             queue |-> q, log |-> log]
                    IN  IF r.err # NoError
                        THEN {zero(TxtFailedReadQueue \o r.err, qf, reads)}
                        ELSE IF loop.addedCount > 0
                        THEN {LET wlog == Append(reads, WriteEvent("queue", w,
                                                                  loop.currentAlbums))
                              IN  IF w.err # NoError
                                  THEN zero(TxtFailedSaveQueue \o w.err, w.file, wlog)
                                  ELSE counted(w.file, wlog) :
                                w \in WriteLines(qf, QueuePath, loop.currentAlbums,
                                                 faults)}
                        ELSE {counted(qf, reads)}
                    : r \in ReadLines(qf, QueuePath, faults)}
            : ir \in ReadLines(source, ImportPath, faults)}

\* The entries of s without the one at position idx.
RemoveAt(s, idx) == SubSeq(s, 1, idx - 1) \o SubSeq(s, idx + 1, Len(s))

\* GetNextAlbum that writes the selected entry to the archive without reading
\* the archive first.
GetNextAlbumRunBlindArchive(qf, af, choice, faults) ==
    UNION {
        LET rlog == <<ReadEvent("queue", r)>>
            selected == r.lines[choice]
            remaining == RemoveAt(r.lines, choice)
            archived == <<selected>>
            failed(err, a, log) ==
                [err |-> err, album |-> <<>>, queue |-> qf, archive |-> a, log |-> log]
        IN  IF r.err # NoError THEN {failed(TxtFailedReadQueue \o r.err, af, rlog)}
            ELSE IF Len(r.lines) = 0 THEN {failed(TxtQueueEmpty, af, rlog)}
            ELSE UNION {
                LET awlog == Append(rlog, WriteEvent("archive", aw, archived))
                IN  IF aw.err # NoError
                    THEN {failed(TxtFailedArchive \o aw.err, aw.file, awlog)}
                    ELSE {[err |-> IF qw.err # NoError
                                   THEN TxtFailedUpdateQueue \o qw.err
                                   ELSE NoError,
                           album |-> IF qw.err # NoError THEN <<>> ELSE selected,
                           queue |-> qw.file, archive |-> aw.file,
                           log |-> Append(awlog, WriteEvent("queue", qw, remaining))] :
                             qw \in WriteLines(qf, QueuePath, remaining, faults)}
                : aw \in WriteLines(af, ArchivePath, archived, faults)}
        : r \in ReadLines(qf, QueuePath, faults)}

\* GetNextAlbum: the results [err, album, queue, archive, log] the call can
\* have.  choice is the random draw (reduced to the length of the queue when
\* the queue is shorter); the entry selected is albums[choice].
GetNextAlbumRun(qf, af, choice, faults) ==
    UNION {
        LET rlog == <<ReadEvent("queue", r)>>
            selected == r.lines[choice]
            remaining == RemoveAt(r.lines, choice)
            failed(err, a, log) ==
                [err |-> err, album |-> <<>>, queue |-> qf, archive |-> a, log |-> log]
        IN  IF r.err # NoError THEN {failed(TxtFailedReadQueue \o r.err, af, rlog)}
            ELSE IF Len(r.lines) = 0 THEN {failed(TxtQueueEmpty, af, rlog)}
            ELSE UNION {
                LET arlog == Append(rlog, ReadEvent("archive", ar))
                    archived == Append(ar.lines, selected)
                IN  IF ar.err # NoError
                    THEN {failed(TxtFailedArchive \o ar.err, af, arlog)}
                    ELSE UNION {
                        LET awlog == Append(arlog, WriteEvent("archive", aw, archived))
                        IN  IF aw.err # NoError
                            THEN {failed(TxtFailedArchive \o aw.err, aw.file, awlog)}
                            ELSE {[err |-> IF qw.err # NoError
                                           THEN TxtFailedUpdateQueue \o qw.err
                                           ELSE NoError,
                                   album |-> IF qw.err # NoError THEN <<>> ELSE selected,
                                   queue |-> qw.file, archive |-> aw.file,
                                   log |-> Append(awlog,
                                                  WriteEvent("queue", qw, remaining))] :
                                     qw \in WriteLines(qf, QueuePath, remaining, faults)}
                        : aw \in WriteLines(af, ArchivePath, archived, faults)}
                : ar \in ReadLines(af, ArchivePath, faults)}
        : r \in ReadLines(qf, QueuePath, faults)}

\* ListAlbums: the results [err, albums, log] the call can have.
ListAlbumsRun(qf, faults) ==
    {[err |-> IF r.err # NoError THEN TxtFailedReadQueue \o r.err ELSE NoError,
      albums |-> r.lines,
      log |-> <<ReadEvent("queue", r)>>] : r \in ReadLines(qf, QueuePath, faults)}

\* CountAlbums: the results [err, count, log] the call can have.
CountAlbumsRun(qf, faults) ==
    {[err |-> IF r.err # NoError THEN TxtFailedReadQueue \o r.err ELSE NoError,
      count |-> Len(r.lines),
      log |-> <<ReadEvent("queue", r)>>] : r \in ReadLines(qf, QueuePath, faults)}

(***************************************************************************)
(* Inputs.                                                                 *)
(***************************************************************************)
AlbumAB == <<"a", "-", "b">>

\* The same album in other letter case, with surrounding whitespace.
AlbumABUpper == <<" ", "A", "-", "B", " ">>

AlbumBA == <<"b", "-", "a">>

\* An album whose title holds the words of an error text.
AlbumFmt ==
    <<"a", "-", "i", "n", "v", "a", "l", "i", "d", " ", "f", "o", "r", "m", "a", "t">>

\* An argument with a line break in it.
AlbumTwoLines == <<"b", "-", "a", NL, "A", "-", "B">>

\* An argument with a line break in it, its second line without a dash.
AlbumThenNoDash == <<"b", "-", "a", NL, "a", "b">>

NoDash == <<"a", "b">>

DashFirst == <<"-", "b">>

DashLast == <<"a", "-", " ">>

ValidInputs ==
    {AlbumAB, AlbumABUpper, AlbumBA, AlbumFmt, AlbumTwoLines, AlbumThenNoDash}

InvalidInputs == {<<>>, NoDash, DashFirst, DashLast}

AddInputs == ValidInputs \cup InvalidInputs

\* Import sources: no such file, an empty file, a file of blank lines, and
\* files of lines as a user may have written them.
ImportSources ==
    {Missing,
     FileOf(<<>>),
     FileOf(<<<<" ">>, <<>>>>),
     FileOf(<<<<" ", "a", "-", "b">>, <<>>, <<"A", "-", "B">>, NoDash, AlbumBA>>),
     FileOf(<<DashFirst, DashLast>>),
     FileOf(<<AlbumFmt, AlbumBA, <<"a", "-", "b", " ">>>>),
     FileOf(<<AlbumABUpper, AlbumAB, AlbumBA, <<"B", "-", "a">>>>)}

\* The inputs tried when storage can fail.
FaultAddInputs == {AlbumAB, AlbumABUpper, AlbumBA, NoDash}

FaultImportSources ==
    {Missing,
     FileOf(<<>>),
     FileOf(<<<<" ", "a", "-", "b">>, <<>>, <<"A", "-", "B">>, NoDash, AlbumBA>>)}

(***************************************************************************)
(* Command line (cmd/music-queue).                                         *)
(***************************************************************************)
TxtAlreadyExistsWords ==
    <<"a", "l", "r", "e", "a", "d", "y", " ", "e", "x", "i", "s", "t", "s">>

ExitSuccess == 0

ExitFailure == 1

\* handleAddCommand: the exit status of the add command after AddAlbum has
\* returned err.
handleAddCommand(err) ==
    IF err # NoError
    THEN IF Contains(err, TxtAlreadyExistsWords) THEN ExitSuccess ELSE ExitFailure
    ELSE ExitSuccess

(***************************************************************************)
(* State machine: one action per call of the queue service.                *)
(***************************************************************************)
Call(op, arg, err, value, counters, log) ==
    [op |-> op, arg |-> arg, err |-> err, value |-> value, counters |-> counters,
     preQueue |-> queueFile, preArchive |-> archiveFile, log |-> log]

NoCounters == [added |-> 0, skipped |-> 0, duplicates |-> 0, formatErrors |-> 0]

\* The invocations in progress, when calls are made one after the other:
\* none.
NoProcs == <<>>

Init ==
    /\ queueFile = Missing
    /\ archiveFile \in {Missing, FileOf(<<>>)}
    /\ proc = NoProcs
    /\ last = [op |-> "init", arg |-> <<>>, err |-> NoError, value |-> <<>>,
               counters |-> NoCounters, preQueue |-> Missing, preArchive |-> Missing,
               log |-> <<>>]

\* A call that makes the files grow is taken only within the bound.
WithinBound(qf, af) ==
    \/ Len(qf.lines) + Len(af.lines) <= MaxAlbums
    \/ Len(qf.lines) + Len(af.lines) <= Len(queueFile.lines) + Len(archiveFile.lines)

AddAlbum(albumTitle, faults) ==
    \E run \in AddAlbumRun(queueFile, albumTitle, faults) :
        /\ WithinBound(run.queue, archiveFile)
        /\ queueFile' = run.queue
        /\ archiveFile' = archiveFile
        /\ proc' = proc
        /\ last' = Call("add", albumTitle, run.err, <<>>, NoCounters, run.log)

ImportAlbums(source, faults) ==
    \E run \in ImportAlbumsRun(queueFile, source, faults) :
        /\ WithinBound(run.queue, archiveFile)
        /\ queueFile' = run.queue
        /\ archiveFile' = archiveFile
        /\ proc' = proc
        /\ last' = Call("import", source, run.err, <<>>,
                        [added |-> run.added, skipped |-> run.skipped,
                         duplicates |-> run.duplicates,
                         formatErrors |-> run.formatErrors], run.log)

GetNextAlbum(choice, faults) ==
    \E run \in GetNextAlbumRun(queueFile, archiveFile, choice, faults) :
        /\ WithinBound(run.queue, run.archive)
        /\ queueFile' = run.queue
        /\ archiveFile' = run.archive
        /\ proc' = proc
        /\ last' = Call("next", choice, run.err, run.album, NoCounters, run.log)

ListAlbums(faults) ==
    \E run \in ListAlbumsRun(queueFile, faults) :
        /\ UNCHANGED <<queueFile, archiveFile>>
        /\ proc' = proc
        /\ last' = Call("list", <<>>, run.err, run.albums, NoCounters, run.log)

CountAlbums(faults) ==
    \E run \in CountAlbumsRun(queueFile, faults) :
        /\ UNCHANGED <<queueFile, archiveFile>>
        /\ proc' = proc
        /\ last' = Call("count", <<>>, run.err, run.count, NoCounters, run.log)

\* The random draws GetNextAlbum can make on the queue as it is stored.
Choices == 1..SetMax({1, Len(NonBlankTrimmed(queueFile.lines))})

\* Storage without faults.
Next ==
    \/ \E albumTitle \in AddInputs : AddAlbum(albumTitle, FALSE)
    \/ \E source \in ImportSources : ImportAlbums(source, FALSE)
    \/ \E choice \in Choices : GetNextAlbum(choice, FALSE)
    \/ ListAlbums(FALSE)
    \/ CountAlbums(FALSE)

Spec == Init /\ [][Next]_vars

\* Storage with every outcome the environment can give each storage call.
NextFault ==
    \/ \E albumTitle \in FaultAddInputs : AddAlbum(albumTitle, TRUE)
    \/ \E source \in FaultImportSources : ImportAlbums(source, TRUE)
    \/ \E choice \in Choices : GetNextAlbum(choice, TRUE)
    \/ ListAlbums(TRUE)
    \/ CountAlbums(TRUE)

SpecFault == Init /\ [][NextFault]_vars

(***************************************************************************)
(* State machine of the line store alone: the file is queueFile, written   *)
(* and read through FileStorage.  archiveFile is not used.                 *)
(***************************************************************************)
\* An album of MaxScanTokenSize bytes and more.
AlbumLong == <<"W", "-", "b">>

SeqsUpTo(S, n) == UNION {[1..k -> S] : k \in 0..n}

\* The physical lines a file may hold when the program finds it: lines as
\* the program writes them, lines with surrounding whitespace, blank lines,
\* a line too long for the scanner.
StoreFileLines == {AlbumAB, AlbumABUpper, AlbumBA, <<" ">>, <<>>, AlbumLong}

\* The entries a caller may hand to WriteLines.
StoreEntries == {AlbumAB, AlbumABUpper, AlbumBA, <<" ">>, AlbumTwoLines, AlbumLong}

InitStore ==
    /\ queueFile \in {Missing} \cup {FileOf(ls) : ls \in SeqsUpTo(StoreFileLines, StoreMaxLines)}
    /\ archiveFile = Missing
    /\ proc = NoProcs
    /\ last = [op |-> "init", arg |-> <<>>, err |-> NoError, value |-> <<>>,
               counters |-> NoCounters, preQueue |-> Missing, preArchive |-> Missing,
               log |-> <<>>]

\* WriteLines(lines).
StoreWriteLines(lines) ==
    \E w \in WriteLines(queueFile, QueuePath, lines, FALSE) :
        /\ queueFile' = w.file
        /\ archiveFile' = archiveFile
        /\ proc' = proc
        /\ last' = Call("write", lines, w.err, <<>>, NoCounters,
                        <<WriteEvent("queue", w, lines)>>)

\* ReadLines().
StoreReadLines ==
    \E r \in ReadLines(queueFile, QueuePath, FALSE) :
        /\ UNCHANGED <<queueFile, archiveFile>>
        /\ proc' = proc
        /\ last' = Call("read", <<>>, r.err, r.lines, NoCounters,
                        <<ReadEvent("queue", r)>>)

\* WriteLines(ReadLines()): the file rewritten with what was read from it.
StoreRewrite ==
    \E r \in ReadLines(queueFile, QueuePath, FALSE) :
        IF r.err # NoError
        THEN /\ UNCHANGED <<queueFile, archiveFile>>
             /\ proc' = proc
             /\ last' = Call("rewrite", <<>>, r.err, <<>>, NoCounters,
                             <<ReadEvent("queue", r)>>)
        ELSE \E w \in WriteLines(queueFile, QueuePath, r.lines, FALSE) :
                /\ queueFile' = w.file
                /\ archiveFile' = archiveFile
                /\ proc' = proc
                /\ last' = Call("rewrite", <<>>, w.err, r.lines, NoCounters,
                                <<ReadEvent("queue", r), WriteEvent("queue", w, r.lines)>>)

NextStore ==
    \/ \E lines \in SeqsUpTo(StoreEntries, StoreMaxLines) : StoreWriteLines(lines)
    \/ StoreReadLines
    \/ StoreRewrite

SpecStore == InitStore /\ [][NextStore]_vars

(***************************************************************************)
(* State machine of validateAlbumFormat alone: a string is drawn, the      *)
(* function is applied to it.  The files are not used.                     *)
(***************************************************************************)
ValidateAlphabet == {" ", "-", "a", "B"}

\* Every string over the alphabet up to the bound, and "A - B - C".
ValidateInputs ==
    SeqsUpTo(ValidateAlphabet, ValidateMaxLen)
        \cup {<<"a", " ", "-", " ", "B", " ", "-", " ", "a">>}

InitValidate ==
    /\ queueFile = Missing
    /\ archiveFile = Missing
    /\ proc = NoProcs
    /\ \E raw \in ValidateInputs :
          last = [op |-> "input", arg |-> raw, err |-> NoError, value |-> <<>>,
                  counters |-> NoCounters, preQueue |-> Missing,
                  preArchive |-> Missing, log |-> <<>>]

\* validateAlbumFormat(album) on the string drawn.
Validate ==
    /\ last.op = "input"
    /\ UNCHANGED <<queueFile, archiveFile>>
    /\ proc' = proc
    /\ last' = Call("validate", last.arg, NoError, validateAlbumFormat(last.arg),
                    NoCounters, <<>>)

NextValidate == Validate

SpecValidate == InitValidate /\ [][NextValidate]_vars

(***************************************************************************)
(* State machine of concurrent AddAlbum invocations on one queue file.     *)
(* AddAlbum takes no lock: between its ReadLines and its WriteLines the    *)
(* other invocations can read and write the file.  Each invocation is two  *)
(* steps, the read with the checks and the write; proc[p] holds the        *)
(* invocation's local variables and the moments of its two steps.          *)
(***************************************************************************)
Procs == 1..MaxProcs

RaceInputs == {AlbumAB, AlbumABUpper, AlbumBA, NoDash}

\* The number of the step about to be taken.
Stamp ==
    1 + Cardinality({p \in Procs : proc[p].readAt > 0})
      + Cardinality({p \in Procs : proc[p].wroteAt > 0})

InitRace ==
    /\ queueFile \in {Missing, FileOf(<<AlbumBA>>)}
    /\ archiveFile = Missing
    /\ proc \in [Procs -> {[pc |-> "read", albumTitle |-> t, existingAlbums |-> <<>>,
                            err |-> NoError, readAt |-> 0, wroteAt |-> 0] :
                              t \in RaceInputs}]
    /\ last = [op |-> "init", arg |-> <<>>, err |-> NoError, value |-> <<>>,
               counters |-> NoCounters, preQueue |-> Missing, preArchive |-> Missing,
               log |-> <<>>]

\* AddAlbum of invocation p up to its WriteLines: the queue is read and the
\* album checked against what was read.
RaceRead(p) ==
    /\ proc[p].pc = "read"
    /\ \E r \in ReadLines(queueFile, QueuePath, FALSE) :
          LET check == addAlbumCheck(proc[p].albumTitle, AlbumsMap(r.lines))
              err == IF r.err # NoError THEN TxtFailedReadQueue \o r.err
                     ELSE IF check = NoError THEN NoError
                     ELSE IF Contains(check, TxtInvalidFormat)
                     THEN TxtInvalidAlbumFormat ELSE check
          IN  proc' = [proc EXCEPT ![p].pc = IF err = NoError THEN "write" ELSE "done",
                                   ![p].existingAlbums = r.lines,
                                   ![p].err = err,
                                   ![p].readAt = Stamp]
    /\ UNCHANGED <<queueFile, archiveFile, last>>

\* The rest of AddAlbum of invocation p: what it read, with its album at
\* the end, is written.
RaceWrite(p) ==
    /\ proc[p].pc = "write"
    /\ LET updatedAlbums == Append(proc[p].existingAlbums, TrimSpace(proc[p].albumTitle))
       IN  \E w \in WriteLines(queueFile, QueuePath, updatedAlbums, FALSE) :
              /\ queueFile' = w.file
              /\ proc' = [proc EXCEPT ![p].pc = "done",
                                      ![p].err = IF w.err # NoError
                                                 THEN TxtFailedSaveQueue \o w.err
                                                 ELSE NoError,
                                      ![p].wroteAt = Stamp]
    /\ UNCHANGED <<archiveFile, last>>

NextRace ==
    \/ \E p \in Procs : RaceRead(p)
    \/ \E p \in Procs : RaceWrite(p)

SpecRace == InitRace /\ [][NextRace]_vars

(***************************************************************************)
(* State machine of the archive location alone: a queue file path is      *)
(* drawn, the archive path is derived from it.  The derivation is that of  *)
(* spec 6 (sibling file, fixed suffix or name) with the names of the two   *)
(* tests of the service: queue.txt gives archive.txt, custom_queue.txt     *)
(* gives custom_queue_archive.txt.  The files are not used.                *)
(***************************************************************************)
Slash == "/"

Dot == "."

\* strings.LastIndex(s, c) for a one-character c.
LastIndex(s, c) ==
    LET at == {i \in 1..Len(s) : s[i] = c}
    IN  IF at = {} THEN -1 ELSE SetMax(at) - 1

\* filepath.Dir(path), for a clean path.
Dir(path) ==
    LET at == LastIndex(path, Slash)
    IN  IF at < 0 THEN <<Dot>>
        ELSE IF at = 0 THEN <<Slash>>
        ELSE SubSeq(path, 1, at)

\* filepath.Base(path), for a clean path that names a file.
Base(path) == SubSeq(path, LastIndex(path, Slash) + 2, Len(path))

\* filepath.Ext(name): the suffix of name from its last dot on.
Ext(name) ==
    LET at == LastIndex(name, Dot)
    IN  IF at < 0 THEN <<>> ELSE SubSeq(name, at + 1, Len(name))

\* filepath.Join(dir, name), for a clean dir.
Join(dir, name) ==
    IF dir = <<Dot>> THEN name
    ELSE IF dir[Len(dir)] = Slash THEN dir \o name
    ELSE dir \o <<Slash>> \o name

QueueTxt == <<"q", "u", "e", "u", "e", ".", "t", "x", "t">>

ArchiveTxt == <<"a", "r", "c", "h", "i", "v", "e", ".", "t", "x", "t">>

ArchiveSuffix == <<"_", "a", "r", "c", "h", "i", "v", "e">>

\* The archive beside every queue file is archive.txt, whatever the queue
\* file is called.
ArchivePathFixedName(queuePath) == Join(Dir(queuePath), ArchiveTxt)

\* The path of the archive for the queue file at queuePath.
ArchivePathFor(queuePath) ==
    LET dir == Dir(queuePath)
        base == Base(queuePath)
        ext == Ext(base)
        name == SubSeq(base, 1, Len(base) - Len(ext))
    IN  IF base = QueueTxt THEN Join(dir, ArchiveTxt)
        ELSE Join(dir, name \o ArchiveSuffix \o ext)

\* The directories and the file names that the queue paths are made of.
PathDirs == {<<Dot>>, <<Slash>>, <<"d">>, <<"d", Slash, "e">>, <<Slash, "t", Dot, "d">>}

PathStems == {<<"q", "u", "e", "u", "e">>,
              <<"a", "r", "c", "h", "i", "v", "e">>,
              <<"c", "u", "s", "t", "o", "m", "_", "q", "u", "e", "u", "e">>,
              <<"q">>,
              <<"a", ".", "b">>,
              <<"q", "u", "e", "u", "e", ".", "t", "x", "t">>}

PathExts == {<<>>, <<".", "t", "x", "t">>, <<".", "m", "d">>}

QueuePaths == {Join(dir, stem \o ext) : dir \in PathDirs, stem \in PathStems, ext \in PathExts}

InitPath ==
    /\ queueFile = Missing
    /\ archiveFile = Missing
    /\ proc = NoProcs
    /\ \E queuePath \in QueuePaths :
          last = [op |-> "queue path", arg |-> queuePath, err |-> NoError,
                  value |-> <<>>, counters |-> NoCounters, preQueue |-> Missing,
                  preArchive |-> Missing, log |-> <<>>]

\* The service derives the archive location for the queue path drawn.
DeriveArchivePath ==
    /\ last.op = "queue path"
    /\ UNCHANGED <<queueFile, archiveFile>>
    /\ proc' = proc
    /\ last' = Call("archive path", last.arg, NoError, ArchivePathFor(last.arg),
                    NoCounters, <<>>)

NextPath == DeriveArchivePath

SpecPath == InitPath /\ [][NextPath]_vars

(***************************************************************************)
(* State machine of a caller that drains the queue: the queue is one that  *)
(* adds have made, and the caller calls GetNextAlbum until a call fails,   *)
(* keeping what the calls returned (the loop of                            *)
(* TestQueueService_GetNextAlbum_ArchivesMultipleAlbums, run to the end).  *)
(* proc holds the caller's variables.                                      *)
(***************************************************************************)
RECURSIVE QueuesAfterAdds(_)
\* The queue files that k successful or refused AddAlbum calls can leave,
\* starting without a file.
QueuesAfterAdds(k) ==
    IF k = 0 THEN {Missing}
    ELSE LET before == QueuesAfterAdds(k - 1)
         IN  before \cup {run.queue : run \in UNION {AddAlbumRun(qf, albumTitle, FALSE) :
                                                        qf \in before, albumTitle \in ValidInputs}}

InitDrain ==
    /\ queueFile \in QueuesAfterAdds(DrainMaxAdds)
    /\ archiveFile \in {Missing, FileOf(<<AlbumAB>>)}
    /\ proc = [testAlbums |-> NonBlankTrimmed(queueFile.lines),
               archivedBefore |-> NonBlankTrimmed(archiveFile.lines),
               selectedAlbums |-> <<>>, errors |-> <<>>]
    /\ last = [op |-> "init", arg |-> <<>>, err |-> NoError, value |-> <<>>,
               counters |-> NoCounters, preQueue |-> Missing, preArchive |-> Missing,
               log |-> <<>>]

\* One turn of the caller's loop: GetNextAlbum, its result kept.  The loop
\* ends with the first call that fails.
DrainNext(choice) ==
    /\ \A i \in 1..Len(proc.errors) : proc.errors[i] = NoError
    /\ \E run \in GetNextAlbumRun(queueFile, archiveFile, choice, FALSE) :
          /\ queueFile' = run.queue
          /\ archiveFile' = run.archive
          /\ proc' = [proc EXCEPT !.selectedAlbums = IF run.err = NoError
                                                     THEN Append(@, run.album) ELSE @,
                                  !.errors = Append(@, run.err)]
          /\ last' = Call("next", choice, run.err, run.album, NoCounters, run.log)

NextDrain == \E choice \in Choices : DrainNext(choice)

SpecDrain == InitDrain /\ [][NextDrain]_vars

(***************************************************************************)
(* What the claims speak of.                                               *)
(***************************************************************************)
\* What read_all returns for a file.
StoredLines(f) == NonBlankTrimmed(f.lines)

\* The key under which duplicates are detected.
Key(album) == ToLower(TrimSpace(album))

SingleLine(album) == Index(TrimSpace(album), NL) = -1

\* The error kinds of a call, read off the error it returned.
IsDuplicateAlbum(err, albumTitle) ==
    err = TxtAlbumQuote \o TrimSpace(albumTitle) \o TxtAlreadyExists

IsInvalidFormat(err) == err = TxtInvalidAlbumFormat

IsReadError(err) ==
    Len(err) >= Len(TxtFailedReadQueue)
    /\ SubSeq(err, 1, Len(TxtFailedReadQueue)) = TxtFailedReadQueue

\* The positions of the log that hold a storage call of this kind on this file.
Calls(log, file, kind) ==
    {i \in 1..Len(log) : log[i].file = file /\ log[i].kind = kind}

Writes(log) == {i \in 1..Len(log) : log[i].kind = "write"}

(***************************************************************************)
(* C1.  The queue never holds two entries that are equal when trimmed and  *)
(* lower-cased, after any sequence of add, import and next calls.          *)
(***************************************************************************)
QueueEntriesUnique ==
    LET q == StoredLines(queueFile)
    IN  \A i, j \in 1..Len(q) : i # j => Key(q[i]) # Key(q[j])

(***************************************************************************)
(* C2.  Whatever storage fault strikes a next call, every album that was   *)
(* in the queue or in the archive before the call is in the queue or in    *)
(* the archive after it.                                                   *)
(***************************************************************************)
NextLosesNoAlbum ==
    last.op = "next" =>
        Entries(StoredLines(last.preQueue)) \cup Entries(StoredLines(last.preArchive))
            \subseteq Entries(StoredLines(queueFile)) \cup Entries(StoredLines(archiveFile))

(***************************************************************************)
(* C3.  When the archive write of a next call is not completed, the call   *)
(* fails with the text "failed to archive album" and the queue file is as  *)
(* it was before the call.                                                 *)
(***************************************************************************)
ArchiveFailureKeepsQueue ==
    (/\ last.op = "next"
     /\ \E i \in Calls(last.log, "archive", "write") : ~last.log[i].complete)
        => /\ Contains(last.err, TxtFailedArchive)
           /\ queueFile = last.preQueue

(***************************************************************************)
(* C4.  In a next call the queue file is written only after the archive    *)
(* write of that call has completed successfully: never before it, never   *)
(* after an archive write that did not complete.                           *)
(***************************************************************************)
QueueWriteAfterArchiveWrite ==
    last.op = "next" =>
        \A i \in Calls(last.log, "queue", "write") :
            /\ \E j \in Calls(last.log, "archive", "write") :
                    j < i /\ ~last.log[j].failed /\ last.log[j].complete
            /\ \A j \in Calls(last.log, "archive", "write") :
                    ~last.log[j].failed /\ last.log[j].complete

(***************************************************************************)
(* C5.  A next call that succeeds on queue Q and archive A returns an      *)
(* entry of Q; the queue is then Q without that one entry, the others in   *)
(* their order, and the archive is A with the entry appended.              *)
(***************************************************************************)
NextRemovesOneAndArchivesIt ==
    (last.op = "next" /\ last.err = NoError) =>
        LET Q == StoredLines(last.preQueue)
            A == StoredLines(last.preArchive)
            q == StoredLines(queueFile)
            a == StoredLines(archiveFile)
        IN  /\ Len(q) = Len(Q) - 1
            /\ \E i \in 1..Len(Q) :
                /\ Q[i] = last.value
                /\ \A k \in 1..Len(q) : q[k] = IF k < i THEN Q[k] ELSE Q[k + 1]
            /\ Len(a) = Len(A) + 1
            /\ a[Len(a)] = last.value
            /\ \A k \in 1..Len(A) : a[k] = A[k]

\* A next call took the first of several entries, the archive not empty.
NextRemovesOneWitness ==
    /\ last.op = "next" /\ last.err = NoError /\ last.arg = 1
    /\ Len(StoredLines(last.preQueue)) >= 2
    /\ Len(StoredLines(last.preArchive)) >= 1

(***************************************************************************)
(* C6.  A next call on a queue file that is missing, or that is read as    *)
(* empty, fails with "queue is empty" and an empty result, writes nothing  *)
(* and leaves both files as they were: a missing archive stays missing.    *)
(***************************************************************************)
EmptyQueueFailsWithoutWrite ==
    (/\ last.op = "next"
     /\ \/ ~last.preQueue.exists
        \/ StoredLines(last.preQueue) = <<>> /\ ~last.log[1].failed)
        => /\ Contains(last.err, TxtQueueEmpty)
           /\ last.value = <<>>
           /\ Writes(last.log) = {}
           /\ queueFile = last.preQueue
           /\ archiveFile = last.preArchive

\* A next call found neither a queue file nor an archive file.
EmptyQueueWitness ==
    /\ last.op = "next"
    /\ ~last.preQueue.exists /\ ~last.preArchive.exists
    /\ ~archiveFile.exists

(***************************************************************************)
(* C7.  After add(s) has succeeded for a one-line album s, an add of a     *)
(* string equal to s up to letter case and surrounding whitespace fails as *)
(* a duplicate and leaves the queue as it was, holding one such entry, the *)
(* trimmed s in its own case.                                              *)
(***************************************************************************)
SecondAddIsDuplicate ==
    [][(/\ last.op = "add" /\ last.err = NoError /\ SingleLine(last.arg)
        /\ last'.op = "add" /\ Key(last'.arg) = Key(last.arg))
          => /\ IsDuplicateAlbum(last'.err, last'.arg)
             /\ queueFile' = queueFile
             /\ LET q == StoredLines(queueFile')
                    same == {i \in 1..Len(q) : Key(q[i]) = Key(last.arg)}
                IN  /\ Cardinality(same) = 1
                    /\ \A i \in same : q[i] = TrimSpace(last.arg)]_vars

(***************************************************************************)
(* C8.  When the queue is read, add fails with InvalidFormat exactly when  *)
(* the format check fails, and with DuplicateAlbum, naming the trimmed     *)
(* input, exactly when the format is valid and the key of the input is the *)
(* key of an entry of the queue.                                           *)
(***************************************************************************)
AddErrorKinds ==
    (last.op = "add" /\ ~IsReadError(last.err)) =>
        /\ IsInvalidFormat(last.err) <=> ~validateAlbumFormat(last.arg)
        /\ IsDuplicateAlbum(last.err, last.arg)
              <=> /\ validateAlbumFormat(last.arg)
                  /\ Key(last.arg) \in AlbumsMap(StoredLines(last.preQueue))

(***************************************************************************)
(* C9.  An add reads the queue exactly once, writes it at most once and    *)
(* exactly once when it succeeds, and never touches the archive; when it   *)
(* fails with InvalidFormat, DuplicateAlbum or a read error it writes      *)
(* nothing and the queue is as it was.                                     *)
(***************************************************************************)
AddReadsOnceWritesOnSuccess ==
    last.op = "add" =>
        /\ Calls(last.log, "queue", "read") = {1}
        /\ \A i \in 1..Len(last.log) : last.log[i].file = "queue"
        /\ Writes(last.log) \subseteq {2}
        /\ archiveFile = last.preArchive
        /\ last.err = NoError => Writes(last.log) = {2}
        /\ (\/ IsInvalidFormat(last.err)
            \/ IsDuplicateAlbum(last.err, last.arg)
            \/ IsReadError(last.err))
              => Writes(last.log) = {} /\ queueFile = last.preQueue

\* An add was refused as a duplicate on a queue of several entries, with an
\* archive on disk.
AddRefusedWitness ==
    /\ last.op = "add" /\ IsDuplicateAlbum(last.err, last.arg)
    /\ Len(StoredLines(last.preQueue)) >= 2
    /\ last.preArchive.exists

(***************************************************************************)
(* C10.  A successful import of a source with N non-blank lines returns    *)
(* added + duplicates + formatErrors = N, formatErrors being the lines     *)
(* that fail the format check and duplicates the valid lines whose key is  *)
(* the key of a queue entry or of an earlier valid line.                   *)
(***************************************************************************)
ImportCountersSum ==
    (last.op = "import" /\ last.err = NoError) =>
        LET lines == NonBlankTrimmed(last.arg.lines)
            N == Len(lines)
            invalid == {i \in 1..N : ~validateAlbumFormat(lines[i])}
            dup == {i \in (1..N) \ invalid :
                        \/ Key(lines[i]) \in AlbumsMap(StoredLines(last.preQueue))
                        \/ \E j \in (1..(i - 1)) \ invalid : Key(lines[j]) = Key(lines[i])}
            c == last.counters
        IN  /\ c.added + c.duplicates + c.formatErrors = N
            /\ c.formatErrors = Cardinality(invalid)
            /\ c.duplicates = Cardinality(dup)
            /\ c.skipped = c.duplicates + c.formatErrors

\* An import added a line, skipped a duplicate and an invalid line, from a
\* source that also holds a blank line.
ImportCountersWitness ==
    /\ last.op = "import" /\ last.err = NoError
    /\ last.counters.added > 0
    /\ last.counters.duplicates > 0
    /\ last.counters.formatErrors > 0
    /\ Len(last.arg.lines) > Len(NonBlankTrimmed(last.arg.lines))

(***************************************************************************)
(* C11.  After a successful import that added lines, the queue is the      *)
(* queue of before the call, every entry in its place, followed by the     *)
(* accepted lines of the source, trimmed, in the order of the source.      *)
(***************************************************************************)
\* The lines of a source that an import on queue Q accepts: the valid lines
\* whose key is neither a key of Q nor the key of an earlier valid line.
AcceptedLines(source, Q) ==
    LET lines == NonBlankTrimmed(source.lines)
        ok == {i \in 1..Len(lines) :
                  /\ validateAlbumFormat(lines[i])
                  /\ Key(lines[i]) \notin AlbumsMap(Q)
                  /\ \A j \in 1..(i - 1) :
                        validateAlbumFormat(lines[j]) => Key(lines[j]) # Key(lines[i])}
        F[i \in 0..Len(lines)] ==
            IF i = 0 THEN <<>>
            ELSE IF i \in ok THEN Append(F[i - 1], lines[i]) ELSE F[i - 1]
    IN  F[Len(lines)]

ImportAppendsAccepted ==
    (last.op = "import" /\ last.err = NoError /\ last.counters.added > 0) =>
        LET Q == StoredLines(last.preQueue)
        IN  /\ StoredLines(queueFile) = Q \o AcceptedLines(last.arg, Q)
            /\ queueFile.lines = last.preQueue.lines \o AcceptedLines(last.arg, Q)
            /\ last.counters.added = Len(AcceptedLines(last.arg, Q))

\* An import added two lines behind a queue of one entry and skipped others.
ImportAppendsWitness ==
    /\ last.op = "import" /\ last.err = NoError
    /\ last.counters.added >= 2 /\ last.counters.skipped >= 1
    /\ Len(StoredLines(last.preQueue)) >= 1

(***************************************************************************)
(* C12.  An import that adds nothing writes nothing: on a source without   *)
(* a non-blank line it returns the counters (0, 0, 0) having neither read  *)
(* nor written the queue; when every line is invalid or a duplicate it     *)
(* returns the counters without a write.  The queue file is as it was, a   *)
(* missing one still missing, and the archive is untouched.                *)
(***************************************************************************)
ImportAddingNothingWritesNothing ==
    (last.op = "import" /\ last.err = NoError /\ last.counters.added = 0) =>
        /\ Writes(last.log) = {}
        /\ queueFile = last.preQueue
        /\ archiveFile = last.preArchive
        /\ \A i \in 1..Len(last.log) : last.log[i].file # "archive"
        /\ NonBlankTrimmed(last.arg.lines) = <<>> =>
              /\ last.counters = NoCounters
              /\ \A i \in 1..Len(last.log) : last.log[i].file # "queue"
        /\ NonBlankTrimmed(last.arg.lines) # <<>> =>
              last.counters.duplicates + last.counters.formatErrors
                  = Len(NonBlankTrimmed(last.arg.lines))

\* An import of invalid lines only found no queue file and left none; the
\* source was read and so was the queue.
ImportNothingWitness ==
    /\ last.op = "import" /\ last.err = NoError
    /\ last.counters.added = 0 /\ last.counters.formatErrors = 2
    /\ ~last.preQueue.exists /\ ~queueFile.exists
    /\ Calls(last.log, "queue", "read") # {}

(***************************************************************************)
(* C13.  An import never writes in part: when the call has returned, with  *)
(* or without a storage fault, the queue file holds either what it held    *)
(* before the call or the full updated list, the queue followed by every   *)
(* accepted line.                                                          *)
(***************************************************************************)
ImportNeverWritesInPart ==
    last.op = "import" =>
        \/ queueFile = last.preQueue
        \/ LET Q == StoredLines(last.preQueue)
           IN  queueFile = FileOf(Q \o AcceptedLines(last.arg, Q))

(***************************************************************************)
(* C14.  An import from a source that does not exist fails with "file not  *)
(* found", all counters 0, and makes no storage call: the queue is neither *)
(* read nor written.  A queue file that does not exist is no error: an     *)
(* import from an existing source then reads it as empty and, unless a     *)
(* storage call fails, succeeds.                                           *)
(***************************************************************************)
IsFileNotFound(err) == err = TxtFileNotFound \o ImportPath

MissingSourceIsFileNotFound ==
    last.op = "import" =>
        /\ ~last.arg.exists =>
              /\ IsFileNotFound(last.err)
              /\ last.counters = NoCounters
              /\ last.log = <<>>
              /\ queueFile = last.preQueue
              /\ archiveFile = last.preArchive
        /\ (last.arg.exists /\ ~last.preQueue.exists) =>
              /\ ~IsFileNotFound(last.err)
              /\ \A i \in Calls(last.log, "queue", "read") : ~last.log[i].failed
              /\ (\A i \in 1..Len(last.log) : ~last.log[i].failed) => last.err = NoError

\* An import from a missing source on a queue of two entries.
MissingSourceWitness ==
    /\ last.op = "import" /\ ~last.arg.exists
    /\ IsFileNotFound(last.err)
    /\ Len(StoredLines(queueFile)) >= 2

(***************************************************************************)
(* C15.  Within one import, of several valid lines that have the same key, *)
(* a key no queue entry has, the first is added, in its own letter case,   *)
(* and each later one is skipped and counted as a duplicate, not as an     *)
(* invalid line.                                                           *)
(***************************************************************************)
\* The positions of the valid lines with key k among the lines of a source.
Occurrences(lines, k) ==
    {i \in 1..Len(lines) : validateAlbumFormat(lines[i]) /\ Key(lines[i]) = k}

FirstOccurrenceAdded ==
    (last.op = "import" /\ last.err = NoError) =>
        LET lines == NonBlankTrimmed(last.arg.lines)
            Q == StoredLines(last.preQueue)
            q == StoredLines(queueFile)
            valid == {i \in 1..Len(lines) : validateAlbumFormat(lines[i])}
            newKeys == {Key(lines[i]) : i \in valid} \ AlbumsMap(Q)
        IN  /\ \A k \in newKeys :
                  LET at == {j \in 1..Len(q) : Key(q[j]) = k}
                  IN  /\ Cardinality(at) = 1
                      /\ \A j \in at : q[j] = lines[SetMin(Occurrences(lines, k))]
            /\ (\A i \in valid : Key(lines[i]) \notin AlbumsMap(Q)) =>
                  /\ last.counters.added = Cardinality(newKeys)
                  /\ last.counters.duplicates = Cardinality(valid) - Cardinality(newKeys)
                  /\ last.counters.formatErrors = Len(lines) - Cardinality(valid)

\* An import held two new albums twice each; the first occurrence of one
\* was in upper case and is the entry the queue now starts with.
FirstOccurrenceWitness ==
    /\ last.op = "import" /\ last.err = NoError
    /\ last.counters.added = 2 /\ last.counters.duplicates = 2
    /\ StoredLines(last.preQueue) = <<>>
    /\ StoredLines(queueFile) = <<TrimSpace(AlbumABUpper), AlbumBA>>

(***************************************************************************)
(* C16.  list and count only read: a list that succeeds returns the        *)
(* entries of the queue file in the order they are stored, a count that    *)
(* succeeds returns the number of those entries, and after either call,    *)
(* successful or not, the queue file and the archive file are as before;   *)
(* the one storage call made is a read of the queue.                       *)
(***************************************************************************)
ListAndCountOnlyRead ==
    (last.op \in {"list", "count"}) =>
        /\ queueFile = last.preQueue
        /\ archiveFile = last.preArchive
        /\ Len(last.log) = 1
        /\ last.log[1].file = "queue" /\ last.log[1].kind = "read"
        /\ (last.op = "list" /\ last.err = NoError) => last.value = queueFile.lines
        /\ (last.op = "count" /\ last.err = NoError) => last.value = Len(queueFile.lines)

\* A list returned two entries or more, with an archive on disk.
ListWitness ==
    /\ last.op = "list" /\ last.err = NoError
    /\ Len(last.value) >= 2
    /\ Len(archiveFile.lines) >= 1

(***************************************************************************)
(* C17.  When there is no queue file, list returns no entry and count      *)
(* returns 0, both without error, and there is still no queue file.        *)
(***************************************************************************)
MissingQueueListsEmpty ==
    (last.op \in {"list", "count"} /\ ~last.preQueue.exists) =>
        /\ last.err = NoError
        /\ last.op = "list" => last.value = <<>>
        /\ last.op = "count" => last.value = 0
        /\ ~queueFile.exists

\* A count found no queue file, returned 0 and left no queue file.
MissingQueueCountWitness ==
    /\ last.op = "count" /\ last.err = NoError /\ last.value = 0
    /\ ~queueFile.exists

(***************************************************************************)
(* C18.  The archive only grows at its end: over any step, the archive of  *)
(* before is a prefix of the archive of after; it changes only in a next   *)
(* call that succeeds, by exactly one entry appended; add, import, list    *)
(* and count make no storage call on it.                                   *)
(***************************************************************************)
IsPrefix(s, t) == Len(s) <= Len(t) /\ SubSeq(t, 1, Len(s)) = s

WriteFailuresReported ==
    \A i \in Writes(last.log) :
        ~last.log[i].complete => last.log[i].failed /\ last.err # NoError

(***************************************************************************)
(* C20.  Round trip of the line store: after WriteLines(L), for L a        *)
(* sequence of non-blank, trimmed strings without a line break, ReadLines  *)
(* returns L; and after a file was rewritten with what ReadLines returned  *)
(* for it, ReadLines returns the same sequence again.                      *)
(***************************************************************************)
\* Non-blank, already trimmed, on a single line.
IsStorable(entry) ==
    entry # <<>> /\ TrimSpace(entry) = entry /\ Index(entry, NL) = -1

StoreRoundTrip ==
    /\ (/\ last.op = "write" /\ last.err = NoError
        /\ \A i \in 1..Len(last.arg) : IsStorable(last.arg[i]))
          => ReadLines(queueFile, QueuePath, FALSE)
                = {[err |-> NoError, lines |-> last.arg]}
    /\ (last.op = "rewrite" /\ last.err = NoError)
          => ReadLines(queueFile, QueuePath, FALSE)
                = {[err |-> NoError, lines |-> last.value]}

(***************************************************************************)
(* C21.  ReadLines returns the lines of the file in file order, each       *)
(* without its leading and trailing whitespace, the lines that are empty   *)
(* or hold only whitespace left out; a file that does not exist or holds   *)
(* no line reads as the empty sequence, without error; WriteLines of the   *)
(* empty sequence leaves a file that exists and reads as empty.            *)
(***************************************************************************)
\* t is x without its leading and trailing whitespace.
IsTrimOf(t, x) ==
    \E i \in 1..(Len(x) + 1) : \E j \in 0..Len(x) :
        /\ t = SubSeq(x, i, j)
        /\ \A k \in 1..(i - 1) : IsSpace(x[k])
        /\ \A k \in (j + 1)..Len(x) : IsSpace(x[k])
        /\ t # <<>> => ~IsSpace(t[1]) /\ ~IsSpace(t[Len(t)])

\* out is what is left of the lines raw when the blank ones are left out
\* and the others are trimmed, in the same order.
IsReadOf(out, raw) ==
    LET kept == {i \in 1..Len(raw) : \E k \in 1..Len(raw[i]) : ~IsSpace(raw[i][k])}
    IN  /\ Len(out) = Cardinality(kept)
        /\ \A i \in kept :
              IsTrimOf(out[Cardinality({k \in kept : k <= i})], raw[i])

ReadLinesTrimsAndSkipsBlank ==
    /\ last.op = "read" =>
          /\ last.err = NoError => IsReadOf(last.value, queueFile.lines)
          /\ last.err # NoError =>
                \E i \in 1..Len(queueFile.lines) :
                    ByteLen(queueFile.lines[i]) >= MaxScanTokenSize
          /\ (~queueFile.exists \/ queueFile.lines = <<>>) =>
                last.err = NoError /\ last.value = <<>>
          /\ queueFile = last.preQueue
    /\ (last.op = "write" /\ last.arg = <<>>) =>
          /\ last.err = NoError
          /\ queueFile.exists
          /\ ReadLines(queueFile, QueuePath, FALSE) = {[err |-> NoError, lines |-> <<>>]}

\* A file of a line with whitespace around it and a blank line was read as
\* one entry.
ReadLinesWitness ==
    /\ last.op = "read" /\ last.err = NoError
    /\ Len(queueFile.lines) = 2 /\ Len(last.value) = 1
    /\ last.value[1] # queueFile.lines[1] /\ last.value[1] # queueFile.lines[2]

(***************************************************************************)
(* C22.  validateAlbumFormat(raw) is true exactly when raw, trimmed, holds *)
(* a dash and both the text before its first dash and the text after it    *)
(* hold a character that is not whitespace.  So it is false for "", " ",   *)
(* "-", "-a", "a-", and true for "a - B - a", where the first dash alone   *)
(* separates.                                                              *)
(***************************************************************************)
\* The text x holds a character that is not whitespace.
HasContent(x) == \E k \in 1..Len(x) : ~IsSpace(x[k])

\* The format as the specification words it, on the raw string.
WellFormed(raw) ==
    \E d \in 1..Len(raw) :
        /\ raw[d] = "-"
        /\ \A k \in 1..(d - 1) : raw[k] # "-"
        /\ HasContent(SubSeq(raw, 1, d - 1))
        /\ HasContent(SubSeq(raw, d + 1, Len(raw)))

ValidFormatIsFirstDashRule ==
    last.op = "validate" =>
        /\ last.value = WellFormed(last.arg)
        /\ last.arg \in {<<>>, <<" ">>, <<"-">>, <<"-", " ", "a">>, <<"a", " ", "-">>}
              => last.value = FALSE
        /\ last.arg = <<"a", " ", "-", " ", "B", " ", "-", " ", "a">> => last.value = TRUE

\* A string with two dashes and nothing after the second was found valid.
ValidFormatWitness ==
    /\ last.op = "validate" /\ last.value = TRUE
    /\ last.arg = <<"a", "-", "B", "-", " ">>

(***************************************************************************)
(* C23.  Every entry of the queue, and every entry of the archive, is      *)
(* valid and is stored trimmed, in every reachable state: add and import   *)
(* put into the queue only entries that pass the format check.             *)
(***************************************************************************)
StoredEntriesValid ==
    \A f \in {queueFile, archiveFile} :
        \A i \in 1..Len(f.lines) :
            /\ validateAlbumFormat(f.lines[i])
            /\ TrimSpace(f.lines[i]) = f.lines[i]

(***************************************************************************)
(* C24.  In an import the format check comes before the duplicate check:   *)
(* a line that fails the format check counts as invalid and not as a       *)
(* duplicate, also when its lower-cased text is an entry of the queue;     *)
(* each line counts in one counter only.                                   *)
(***************************************************************************)
\* The positions of the lines of a source that fail the format check and
\* whose key is the key of an entry of the queue Q.
InvalidAndInQueue(lines, Q) ==
    {i \in 1..Len(lines) :
        ~validateAlbumFormat(lines[i]) /\ Key(lines[i]) \in AlbumsMap(Q)}

AddAppendsTrimmedInput ==
    (last.op = "add" /\ last.err = NoError) =>
        LET Q == StoredLines(last.preQueue)
            q == StoredLines(queueFile)
        IN  /\ Len(q) = Len(Q) + 1
            /\ \A i \in 1..Len(Q) : q[i] = Q[i]
            /\ IsTrimOf(q[Len(q)], last.arg)

RaceAllDone == DOMAIN proc # {} /\ \A p \in DOMAIN proc : proc[p].pc = "done"

\* The invocations that wrote the queue with success.
RaceWriters == {p \in DOMAIN proc : proc[p].wroteAt > 0 /\ proc[p].err = NoError}

RaceLost(p) == TrimSpace(proc[p].albumTitle) \notin Entries(StoredLines(queueFile))

LostUpdateOnlyByOverlap ==
    RaceAllDone =>
        \A p \in RaceWriters :
            /\ RaceLost(p) =>
                  \E q \in RaceWriters \ {p} :
                      /\ proc[q].readAt < proc[p].wroteAt
                      /\ proc[p].wroteAt < proc[q].wroteAt
            /\ \A q \in RaceWriters :
                  (\A w \in RaceWriters : proc[w].wroteAt <= proc[q].wroteAt) =>
                      (RaceLost(p) <=>
                          /\ TrimSpace(proc[p].albumTitle) \notin Entries(proc[q].existingAlbums)
                          /\ TrimSpace(proc[p].albumTitle) # TrimSpace(proc[q].albumTitle))

\* Both invocations reported success and the album of one is not in the
\* queue.
LostUpdateWitness ==
    /\ RaceAllDone
    /\ \A p \in DOMAIN proc : proc[p].err = NoError /\ proc[p].wroteAt > 0
    /\ \E p \in DOMAIN proc : RaceLost(p)

(***************************************************************************)
(* C29.  After a next call the selected album is not duplicated, whatever  *)
(* the outcome of the call: it is not both kept in the queue and appended  *)
(* to the archive by this call.                                            *)
(*                                                                         *)
(* This does not hold when the final queue write fails before the file is  *)
(* opened: the archive has the album by then and the queue keeps it.  What *)
(* holds is NextDuplicatesOnlyOnQueueWriteFailure: the call appends the    *)
(* album to the archive at most once, and the album is both appended and   *)
(* kept only when the call failed with "failed to update queue"; after a   *)
(* success or a failure to archive it is never duplicated.                 *)
(***************************************************************************)
CountOf(album, albums) == Cardinality({i \in 1..Len(albums) : albums[i] = album})

\* The last call was a next that got as far as selecting an album.
NextSelected == last.op = "next" /\ Len(last.log) >= 2

SelectedAlbum == StoredLines(last.preQueue)[last.arg]

\* How many more times the archive holds the selected album than before
\* the call.
SelectedAppended ==
    CountOf(SelectedAlbum, StoredLines(archiveFile))
        - CountOf(SelectedAlbum, StoredLines(last.preArchive))

\* The queue holds the selected album as many times as before the call.
SelectedKept ==
    CountOf(SelectedAlbum, StoredLines(queueFile))
        >= CountOf(SelectedAlbum, StoredLines(last.preQueue))

IsQueueUpdateError(err) ==
    Len(err) >= Len(TxtFailedUpdateQueue)
    /\ SubSeq(err, 1, Len(TxtFailedUpdateQueue)) = TxtFailedUpdateQueue

AddWroteQueue ==
    \E i \in Calls(last.log, "queue", "write") : last.log[i].complete

\* The last add found the album, valid in format, in the queue it read and
\* left the queue as it was.
AddFoundDuplicate ==
    /\ ~last.log[1].failed
    /\ validateAlbumFormat(TrimSpace(last.arg))
    /\ Key(last.arg) \in AlbumsMap(StoredLines(last.preQueue))
    /\ queueFile = last.preQueue

AddExitsZeroWhenAddedOrDuplicate ==
    last.op = "add" =>
        (handleAddCommand(last.err) = ExitSuccess <=> (AddWroteQueue \/ AddFoundDuplicate))

(***************************************************************************)
(* C32.  With storage that does not fail, every call conserves the albums: *)
(* the entries of the queue and of the archive, counted with their         *)
(* repetitions, are after the call those before it plus the albums the     *)
(* call accepted.  A successful add adds its trimmed argument once, an     *)
(* import adds `added` trimmed lines of its source, every other call adds  *)
(* nothing.                                                                *)
(***************************************************************************)
\* How many times the two files together hold the album.
HeldCount(album, qf, af) == CountOf(album, StoredLines(qf)) + CountOf(album, StoredLines(af))

HeldTotal(qf, af) == Len(StoredLines(qf)) + Len(StoredLines(af))

\* The albums the two files hold, before or after the last call.
HeldAlbums ==
    Entries(StoredLines(queueFile)) \cup Entries(StoredLines(archiveFile))
        \cup Entries(StoredLines(last.preQueue)) \cup Entries(StoredLines(last.preArchive))

\* How many times the last call made the album appear.
Gained(album) ==
    HeldCount(album, queueFile, archiveFile) - HeldCount(album, last.preQueue, last.preArchive)

AlbumsConserved ==
    /\ (last.op = "add" /\ last.err = NoError) =>
          /\ HeldTotal(queueFile, archiveFile) = HeldTotal(last.preQueue, last.preArchive) + 1
          /\ \A album \in HeldAlbums \cup {TrimSpace(last.arg)} :
                Gained(album) = IF album = TrimSpace(last.arg) THEN 1 ELSE 0
    /\ last.op = "import" =>
          /\ HeldTotal(queueFile, archiveFile)
                = HeldTotal(last.preQueue, last.preArchive) + last.counters.added
          /\ \A album \in HeldAlbums :
                /\ Gained(album) >= 0
                /\ Gained(album) <= CountOf(album, StoredLines(last.arg))
    /\ (\/ last.op \in {"next", "list", "count"}
        \/ last.op = "add" /\ last.err # NoError) =>
          /\ HeldTotal(queueFile, archiveFile) = HeldTotal(last.preQueue, last.preArchive)
          /\ \A album \in HeldAlbums : Gained(album) = 0

(***************************************************************************)
(* C33.  A caller that drains a queue of n entries, storage not failing    *)
(* and nobody adding: the first n calls of next succeed and return n       *)
(* distinct entries, a permutation of the queue as it was; the queue is    *)
(* then empty; the archive has grown by those n entries in the order       *)
(* returned; the call after them fails with "queue is empty".              *)
(***************************************************************************)
Distinct(albums) ==
    \A i, j \in 1..Len(albums) : i # j => albums[i] # albums[j]

IsPermutation(albums, of) ==
    /\ Len(albums) = Len(of)
    /\ \A album \in Entries(albums) \cup Entries(of) :
          CountOf(album, albums) = CountOf(album, of)

DrainReturnsEveryEntryOnce ==
    LET n == Len(proc.testAlbums)
        calls == Len(proc.errors)
    IN  /\ \A i \in 1..calls : (proc.errors[i] = NoError) <=> (i <= n)
        /\ calls > n => proc.errors[n + 1] = TxtQueueEmpty
        /\ StoredLines(archiveFile) = proc.archivedBefore \o proc.selectedAlbums
        /\ calls >= n =>
              /\ StoredLines(queueFile) = <<>>
              /\ IsPermutation(proc.selectedAlbums, proc.testAlbums)
              /\ Distinct(proc.selectedAlbums)

(***************************************************************************)
(* C34.  An import does what one add per line of the source does: the     *)
(* queue after ImportAlbums(source) is the queue after AddAlbum has been   *)
(* called on each line of the source in order, the calls refused for the   *)
(* format or as duplicates being passed over, and `added` is the number of *)
(* those calls that succeeded.                                             *)
(***************************************************************************)
RECURSIVE AddEachLine(_, _, _)
\* The results [queue, added] of AddAlbum called on each of the lines in
\* order, starting from the queue file qf with `added` successes so far.
AddEachLine(qf, lines, added) ==
    IF lines = <<>> THEN {[queue |-> qf, added |-> added]}
    ELSE UNION {AddEachLine(run.queue, Tail(lines), IF run.err = NoError THEN added + 1 ELSE added) : run \in AddAlbumRun(qf, Head(lines), FALSE)}

ImportEqualsSequentialAdds ==
    last.op = "import" =>
        \A adds \in AddEachLine(last.preQueue, last.arg.lines, 0) :
            /\ StoredLines(queueFile) = StoredLines(adds.queue)
            /\ queueFile = adds.queue
            /\ last.counters.added = adds.added

\* An import onto a queue that is not empty which added two albums and
\* passed over a duplicate and a line of invalid format.
ImportEqualsAddsWitness ==
    /\ last.op = "import" /\ last.err = NoError
    /\ Len(StoredLines(last.preQueue)) >= 1
    /\ last.counters.added >= 2
    /\ last.counters.duplicates >= 1
    /\ last.counters.formatErrors >= 1
    /\ \E adds \in AddEachLine(last.preQueue, last.arg.lines, 0) :
          queueFile = adds.queue /\ adds.added = last.counters.added

(***************************************************************************)
(* C35.  Importing the same source twice in a row: the second import       *)
(* leaves the queue as the first left it, writes nothing, returns          *)
(* added = 0, and counts as skipped duplicates the lines the first import  *)
(* counted so and the lines it added.                                      *)
(***************************************************************************)
SecondImportAddsNothing ==
    [][(/\ last.op = "import"
        /\ last'.op = "import" /\ last'.arg = last.arg)
          => /\ queueFile' = queueFile
             /\ Writes(last'.log) = {}
             /\ last'.err = last.err
             /\ last'.counters.added = 0
             /\ last'.counters.skipped = last.counters.skipped + last.counters.added
             /\ last'.counters.duplicates = last.counters.duplicates + last.counters.added
             /\ last'.counters.formatErrors = last.counters.formatErrors]_vars

\* An import that found in the queue exactly what an import of its source
\* into a new queue leaves, two albums or more, and added nothing.
SecondImportWitness ==
    /\ last.op = "import" /\ last.err = NoError
    /\ last.counters.added = 0
    /\ last.counters.duplicates >= 3
    /\ Writes(last.log) = {}
    /\ queueFile = last.preQueue
    /\ \E first \in ImportAlbumsRun(Missing, last.arg, FALSE) :
          first.added >= 2 /\ first.queue = queueFile


====
